---- MODULE Spec2Model ----
(***************************************************************************)
(* MyTube API gateway (src/HW3/API/api.py).                                *)
(*                                                                         *)
(* The module keeps no data of its own: every handler builds its response  *)
(* from the request, from uuid4() and from datetime.now().  The state of   *)
(* the model is therefore the environment the handlers draw on (the number *)
(* of uuids drawn so far, the clock) and the exchanges clients have seen   *)
(* so far (log), over which the properties of request sequences are        *)
(* stated.                                                                 *)
(*                                                                         *)
(* An optional value (T | None) is a set with at most one element.         *)
(* An f-string is the tuple of its literal part and its argument.          *)
(* A response is a record whose code field is the HTTP status code; an     *)
(* exception that escapes a handler is answered by the framework with 500. *)
(***************************************************************************)
EXTENDS Integers, Sequences, FiniteSets

\* ---------------------------------------------------------------- bounds

\* Requests handled in one behaviour.
MaxRequests == 2
\* Uuids a client makes up itself (as opposed to the ones the gateway returned).
MaxClientUuid == 1
\* Largest position_sec a view ping is sent with (SpecViews).
MaxPosition == 13
\* Pages and page sizes asked for near the start of a listing (SpecSearch).
MaxPage == 3
MaxSize == 3

\* ------------------------------------------------------ program constants

\* ping_view: counted = body.position_sec > 10
ViewThreshold == 10
\* PageMeta.size: Field(20, ge=1, le=200)
MaxPageSize == 200
\* search_videos_global: PageMeta(page=page, size=size, total=1000)
TotalFound == 1000
\* get_processing_status: progress=42
StubProgress == 42

VARIABLES
    log,        \* the exchanges so far: <<[req |-> ..., resp |-> ...], ...>>
    uuidCount,  \* uuid4() calls made so far
    now         \* the clock datetime.now() reads

vars == <<log, uuidCount, now>>

\* ---------------------------------------------------------------- helpers

None == {}
Some(x) == {x}
Get(o) == CHOOSE x \in o : TRUE

\* Python's `a or b` for an optional a whose values are all truthy (a UUID, an
\* enum member) or whose falsy value is b itself (`tags or []`).
Or(o, b) == IF o = None THEN b ELSE Get(o)
\* Python's `a or b` for an optional string a: None and "" are both falsy.
OrStr(o, b) == IF o = None \/ o = Some("") THEN b ELSE Get(o)

\* uuid4(): the k-th uuid drawn while handling the current request.  A version-4
\* uuid is 122 random bits: it is modelled as never repeating and never equal to
\* a uuid a client made up.
uuid4(k) == MaxClientUuid + uuidCount + k

\* datetime.now(tz=ZoneInfo("Europe/Moscow"))
datetime_now == now

\* raise HTTPException(status_code, detail)
HTTPException(status_code, detail) == [code |-> status_code, error |-> detail]

\* An exception escaping the handler: Starlette's ServerErrorMiddleware answers 500.
InternalServerError(exc) == [code |-> 500, error |-> exc]

\* range(a, b) as the sequence a, a+1, ..., b-1 (empty when b <= a).
Range(a, b) == [k \in 1..(IF b > a THEN b - a ELSE 0) |-> a + k - 1]

\* ---------------------------------------------------------------- schemas

SortOrder == {"asc", "desc"}
Visibility == {"public", "unlisted", "private"}

\* PageMeta: page >= 1, 1 <= size <= 200, total >= 0 (pydantic raises otherwise).
PageMetaValid(page, size, total) ==
    page >= 1 /\ size >= 1 /\ size <= MaxPageSize /\ total >= 0

PageMeta(page, size, total) == [page |-> page, size |-> size, total |-> total]

BaseOK(message) == [code |-> 200, ok |-> TRUE, message |-> message]

TokenPair(access_token, refresh_token, expires_in) ==
    [code |-> 200, access_token |-> access_token, refresh_token |-> refresh_token,
     token_type |-> "Bearer", expires_in |-> expires_in]

UserOut(code, id, email, display_name, bio, created_at) ==
    [code |-> code, id |-> id, email |-> email, display_name |-> display_name,
     bio |-> bio, role |-> "user", created_at |-> created_at]

VideoOut(id, owner_id, title, description, tags, visibility, duration_sec, status, created_at) ==
    [id |-> id, owner_id |-> owner_id, title |-> title, description |-> description,
     tags |-> tags, visibility |-> visibility, duration_sec |-> duration_sec,
     status |-> status, created_at |-> created_at]

\* A handler's VideoOut as the response body, with the route's status code.
VideoResponse(code, video) == [code |-> code, video |-> video]

ProcessStatus(video_id, status, progress) ==
    [code |-> 200, video_id |-> video_id, status |-> status, progress |-> progress]

PublishResponse(video_id, visibility, published_at) ==
    [code |-> 200, video_id |-> video_id, visibility |-> visibility,
     published_at |-> published_at]

CommentOut(code, id, video_id, author_id, text, created_at) ==
    [code |-> code, id |-> id, video_id |-> video_id, author_id |-> author_id,
     text |-> text, created_at |-> created_at]

LikeStatus(video_id, likes, liked_by_me) ==
    [code |-> 200, video_id |-> video_id, likes |-> likes, liked_by_me |-> liked_by_me]

ViewAck(video_id, counted, view_id) ==
    [code |-> 200, video_id |-> video_id, counted |-> counted, view_id |-> view_id]

\* --------------------------------------------------------------- handlers
\* Each operator is one route function; its parameters are the values FastAPI
\* hands it after validating the request against the declared schema.

\* ---------- auth

login_oauth == [code |-> 307, location |-> "https://oauth.com/login"]

login(body) == TokenPair("access.demo", "refresh.demo", 3600)

refresh(body) ==
    IF body.refresh_token = ""
    THEN HTTPException(400, "invalid refresh_token")
    ELSE TokenPair("access.refreshed", body.refresh_token, 3500)

logout(authorization) == BaseOK(Some("logged out"))

\* ---------- users

create_user(body) ==
    UserOut(201, uuid4(1), body.email, body.display_name, None, datetime_now)

\* `id=user_id`: no such name in the function or the module, so evaluating the
\* first keyword argument raises NameError.
get_me(authorization) == InternalServerError("NameError: name 'user_id' is not defined")

update_user(user_id, body) ==
    UserOut(200, user_id, "demo@example.com", Some(OrStr(body.display_name, "Demo")),
            body.bio, datetime_now)

\* ---------- videos

create_video(body, user_id) ==
    VideoResponse(201,
        VideoOut(uuid4(1), user_id, body.title, body.description, body.tags,
                 body.visibility, None, "uploaded", datetime_now))

\* get_video as it would be if delete_video removed the video: 404 once the
\* video was deleted.
get_video_deleted(video_id) ==
    IF \E i \in 1..Len(log) :
            log[i].req.op = "delete_video" /\ log[i].req.video_id = video_id
    THEN HTTPException(404, "video not found")
    ELSE VideoResponse(200,
            VideoOut(video_id, uuid4(1), "Sample Video", None, <<>>, "public",
                     Some(123), "ready", datetime_now))

get_video(video_id) ==
    VideoResponse(200,
        VideoOut(video_id, uuid4(1), "Sample Video", None, <<>>, "public", Some(123),
                 "ready", datetime_now))

update_video(video_id, body) ==
    VideoResponse(200,
        VideoOut(video_id, uuid4(1), OrStr(body.title, "Sample Video"), body.description,
                 Or(body.tags, <<>>), Or(body.visibility, "public"), Some(123),
                 "ready", datetime_now))

delete_video(video_id) == BaseOK(Some(<<"video", video_id, "deleted (queued)">>))

\* Item k of the comprehension draws uuid4() for its id and, when no owner_id was
\* given, a second one for its owner.
search_videos(owner_id, tag, visibility, sort, page, size) ==
    LET idx == Range((page - 1) * size, page * size)
        per == IF owner_id = None THEN 2 ELSE 1
    IN  [code |-> 200,
         items |-> [k \in 1..Len(idx) |->
            VideoOut(uuid4(per * (k - 1) + 1),
                     Or(owner_id, uuid4(per * (k - 1) + 2)),
                     <<"Video", idx[k]>>, None, <<>>, Or(visibility, "public"), None,
                     "ready", datetime_now)]]

\* ---------- uploads

init_upload(filename, content_type, file) == [code |-> 201, video_id |-> uuid4(1)]

\* ---------- processing

\* get_processing_status as it would be if it reported the work left instead of
\* the work done: the progress falls as the gateway goes on.
get_processing_status_remaining(video_id) ==
    ProcessStatus(video_id, "running", StubProgress - Len(log))

get_processing_status(video_id) == ProcessStatus(video_id, "running", StubProgress)

publish_video(body) ==
    PublishResponse(body.video_id,
                    IF body.make_public THEN "public" ELSE "unlisted",
                    datetime_now)

\* ---------- social

\* Header("u_123") is the default FastAPI passes unvalidated when the header is
\* absent; CommentOut.author_id is a UUID, and "u_123" is not one, so building
\* the model raises pydantic's ValidationError after every argument was evaluated.
create_comment(body, x_user_id) ==
    IF x_user_id = None
    THEN InternalServerError("ValidationError: author_id")
    ELSE CommentOut(201, uuid4(1), body.video_id, Get(x_user_id), body.text, datetime_now)

get_comment(comment_id) ==
    CommentOut(200, comment_id, uuid4(1), uuid4(2), "Nice!", datetime_now)

delete_comment(comment_id) == BaseOK(Some(<<"comment", comment_id, "deleted">>))

set_like(body, x_user_id) ==
    LikeStatus(body.video_id, IF body.like THEN 101 ELSE 100, body.like)

\* ping_view with the threshold taken inclusively.
ping_view_inclusive(body) ==
    LET counted == body.position_sec >= ViewThreshold
    IN  ViewAck(body.video_id, counted, IF counted THEN Some(uuid4(1)) ELSE None)

ping_view(body) ==
    LET counted == body.position_sec > ViewThreshold
    IN  ViewAck(body.video_id, counted, IF counted THEN Some(uuid4(1)) ELSE None)

\* ---------- notifications

send_notification(body) == [code |-> 202, id |-> uuid4(1), status |-> "queued"]

\* ---------- stats

get_video_stats(video_id) ==
    [code |-> 200, video_id |-> video_id, views |-> 1234, likes |-> 120,
     comments |-> 15, watch_time_sec |-> 98765]

get_user_stats(user_id) ==
    [code |-> 200, user_id |-> user_id, videos |-> 7, views |-> 43210, likes |-> 987,
     comments |-> 321]

\* ---------- search

\* The items are built first (two uuids each), then PageMeta(...) is validated:
\* a page or size outside PageMeta's bounds raises ValidationError.
search_videos_global(q, tag, sort, page, size) ==
    LET idx == Range((page - 1) * size, page * size)
    IN  IF ~PageMetaValid(page, size, TotalFound)
        THEN InternalServerError("ValidationError: PageMeta")
        ELSE [code |-> 200,
              meta |-> PageMeta(page, size, TotalFound),
              items |-> [k \in 1..Len(idx) |->
                 VideoOut(uuid4(2 * (k - 1) + 1), uuid4(2 * (k - 1) + 2),
                          <<"Found", IF q # None /\ q # Some("") THEN Get(q)
                                     ELSE IF tag # None /\ tag # Some("") THEN Get(tag)
                                     ELSE idx[k]>>,
                          None, <<>>, "public", None, "ready", datetime_now)]]

\* ---------- service

healthcheck == [code |-> 200, status |-> "ok", time |-> datetime_now]

\* ------------------------------------------------------------ request inputs

\* Uuids a client sends: the ones it made up and the video ids the gateway has
\* returned to it (create_video's id, init_upload's video_id).
ClientUuids == 1..MaxClientUuid

Issued ==
    {log[i].resp.video.id : i \in {j \in 1..Len(log) : log[j].req.op = "create_video"}}
    \cup {log[i].resp.video_id : i \in {j \in 1..Len(log) : log[j].req.op = "init_upload"}}

VideoIds == ClientUuids \cup Issued

\* The owner_id filter of search_videos (SpecSearch; Spec sends none).
Owners == {None} \cup {Some(u) : u \in ClientUuids}
\* Pages and sizes of a listing request in Spec; SpecSearch asks for more.
FirstPages == {1, 2}
FirstSizes == {2}
\* SpecSearch: the first pages, the pages around the reported total, and a size
\* just above PageMeta's limit.
Pages == (1..MaxPage) \cup {TotalFound, TotalFound + 1}
Sizes == (1..MaxSize) \cup {MaxPageSize + 1}
\* SpecViews: every position up to MaxPosition; Spec: the two around the threshold.
Positions == 0..MaxPosition
SomePositions == {ViewThreshold, ViewThreshold + 1}

\* ------------------------------------------------------------------ routing

\* app.include_router(...): the route function a request is dispatched to.
Respond(r) ==
    CASE r.op = "login_oauth" -> login_oauth
      [] r.op = "login" -> login(r.body)
      [] r.op = "refresh" -> refresh(r.body)
      [] r.op = "logout" -> logout(r.authorization)
      [] r.op = "create_user" -> create_user(r.body)
      [] r.op = "get_me" -> get_me(r.authorization)
      [] r.op = "update_user" -> update_user(r.user_id, r.body)
      [] r.op = "create_video" -> create_video(r.body, r.user_id)
      [] r.op = "get_video" -> get_video(r.video_id)
      [] r.op = "update_video" -> update_video(r.video_id, r.body)
      [] r.op = "delete_video" -> delete_video(r.video_id)
      [] r.op = "search_videos" ->
            search_videos(r.owner_id, r.tag, r.visibility, r.sort, r.page, r.size)
      [] r.op = "init_upload" -> init_upload(r.filename, r.content_type, r.file)
      [] r.op = "get_processing_status" -> get_processing_status(r.video_id)
      [] r.op = "publish_video" -> publish_video(r.body)
      [] r.op = "create_comment" -> create_comment(r.body, r.x_user_id)
      [] r.op = "get_comment" -> get_comment(r.comment_id)
      [] r.op = "delete_comment" -> delete_comment(r.comment_id)
      [] r.op = "set_like" -> set_like(r.body, r.x_user_id)
      [] r.op = "ping_view" -> ping_view(r.body)
      [] r.op = "send_notification" -> send_notification(r.body)
      [] r.op = "get_video_stats" -> get_video_stats(r.video_id)
      [] r.op = "get_user_stats" -> get_user_stats(r.user_id)
      [] r.op = "search_videos_global" ->
            search_videos_global(r.q, r.tag, r.sort, r.page, r.size)
      [] r.op = "healthcheck" -> healthcheck

\* ------------------------------------------------------------------ actions

Init ==
    /\ log = <<>>
    /\ uuidCount = 0
    /\ now = 0

\* The gateway serves requests for as long as the behaviour is followed.
Accepting == Len(log) < MaxRequests

\* One request handled: the client sees the response, `draws` uuids were drawn,
\* and a handler that read the clock may find it advanced at the next read.
Handle(r, draws, readsClock) ==
    /\ log' = Append(log, [req |-> r, resp |-> Respond(r)])
    /\ uuidCount' = uuidCount + draws
    /\ IF readsClock THEN now' \in {now, now + 1} ELSE now' = now

LoginOauth ==
    /\ Accepting
    /\ Handle([op |-> "login_oauth"], 0, FALSE)

Login ==
    /\ Accepting
    /\ Handle([op |-> "login", body |-> [email |-> "a@b", password |-> "secret"]],
              0, FALSE)

Refresh ==
    /\ Accepting
    /\ \E tok \in {"", "refresh.demo"} :
           Handle([op |-> "refresh", body |-> [refresh_token |-> tok]], 0, FALSE)

Logout ==
    /\ Accepting
    /\ \E authorization \in {None, Some("Bearer access.demo")} :
           Handle([op |-> "logout", authorization |-> authorization], 0, FALSE)

CreateUser ==
    /\ Accepting
    /\ \E dn \in {None, Some("Ann")} :
           Handle([op |-> "create_user",
                   body |-> [email |-> "a@b", password |-> "secret",
                             display_name |-> dn]],
                  1, TRUE)

\* NameError is raised before datetime.now() is reached.
GetMe ==
    /\ Accepting
    /\ Handle([op |-> "get_me", authorization |-> "Bearer access.demo"], 0, FALSE)

UpdateUser ==
    /\ Accepting
    /\ \E user_id \in ClientUuids, dn \in {None, Some("")} :
           Handle([op |-> "update_user", user_id |-> user_id,
                   body |-> [display_name |-> dn, bio |-> None]],
                  0, TRUE)

CreateVideo ==
    /\ Accepting
    /\ \E user_id \in ClientUuids, visibility \in Visibility :
           Handle([op |-> "create_video", user_id |-> user_id,
                   body |-> [title |-> "t", description |-> None, tags |-> <<>>,
                             visibility |-> visibility]],
                  1, TRUE)

GetVideo ==
    /\ Accepting
    /\ \E video_id \in VideoIds :
           Handle([op |-> "get_video", video_id |-> video_id], 1, TRUE)

UpdateVideo ==
    /\ Accepting
    /\ \E video_id \in VideoIds, visibility \in {None, Some("private")} :
           Handle([op |-> "update_video", video_id |-> video_id,
                   body |-> [title |-> None, description |-> None, tags |-> None,
                             visibility |-> visibility]],
                  1, TRUE)

DeleteVideo ==
    /\ Accepting
    /\ \E video_id \in VideoIds :
           Handle([op |-> "delete_video", video_id |-> video_id], 0, FALSE)

SearchVideos(O, P, S) ==
    /\ Accepting
    /\ \E owner_id \in O, visibility \in {None, Some("private")}, page \in P, size \in S :
           Handle([op |-> "search_videos", owner_id |-> owner_id, tag |-> None,
                   visibility |-> visibility, sort |-> "desc", page |-> page,
                   size |-> size],
                  size * (IF owner_id = None THEN 2 ELSE 1), TRUE)

InitUpload ==
    /\ Accepting
    /\ Handle([op |-> "init_upload", filename |-> "a.mp4", content_type |-> "video/mp4",
               file |-> <<>>],
              1, FALSE)

GetProcessingStatus ==
    /\ Accepting
    /\ \E video_id \in VideoIds :
           Handle([op |-> "get_processing_status", video_id |-> video_id], 0, FALSE)

PublishVideo ==
    /\ Accepting
    /\ \E video_id \in VideoIds, make_public \in BOOLEAN :
           Handle([op |-> "publish_video",
                   body |-> [video_id |-> video_id, make_public |-> make_public]],
                  0, TRUE)

\* Every argument of CommentOut(...) is evaluated (one uuid, one clock read)
\* before the model is validated.
CreateComment ==
    /\ Accepting
    /\ \E video_id \in VideoIds, x_user_id \in {None} \cup {Some(u) : u \in ClientUuids} :
           Handle([op |-> "create_comment", x_user_id |-> x_user_id,
                   body |-> [video_id |-> video_id, text |-> "hi"]],
                  1, TRUE)

GetComment ==
    /\ Accepting
    /\ \E comment_id \in ClientUuids :
           Handle([op |-> "get_comment", comment_id |-> comment_id], 2, TRUE)

DeleteComment ==
    /\ Accepting
    /\ \E comment_id \in ClientUuids :
           Handle([op |-> "delete_comment", comment_id |-> comment_id], 0, FALSE)

SetLike ==
    /\ Accepting
    /\ \E video_id \in VideoIds, like \in BOOLEAN :
           Handle([op |-> "set_like", x_user_id |-> None,
                   body |-> [video_id |-> video_id, like |-> like]],
                  0, FALSE)

PingView(P) ==
    /\ Accepting
    /\ \E video_id \in VideoIds, position_sec \in P :
           Handle([op |-> "ping_view",
                   body |-> [video_id |-> video_id, position_sec |-> position_sec]],
                  IF position_sec > ViewThreshold THEN 1 ELSE 0, FALSE)

SendNotification ==
    /\ Accepting
    /\ \E user_id \in ClientUuids :
           Handle([op |-> "send_notification",
                   body |-> [user_id |-> user_id, title |-> "t", body |-> "b",
                             deep_link |-> None]],
                  1, FALSE)

GetVideoStats ==
    /\ Accepting
    /\ \E video_id \in VideoIds :
           Handle([op |-> "get_video_stats", video_id |-> video_id], 0, FALSE)

GetUserStats ==
    /\ Accepting
    /\ \E user_id \in ClientUuids :
           Handle([op |-> "get_user_stats", user_id |-> user_id], 0, FALSE)

\* The items are built (two uuids and a clock read each) before PageMeta is.
SearchVideosGlobal(P, S) ==
    /\ Accepting
    /\ \E q \in {None, Some("cats")}, page \in P, size \in S :
           Handle([op |-> "search_videos_global", q |-> q, tag |-> None, sort |-> "desc",
                   page |-> page, size |-> size],
                  2 * size, TRUE)

Healthcheck ==
    /\ Accepting
    /\ Handle([op |-> "healthcheck"], 0, TRUE)

\* -------------------------------------------------------------- specifications

AuthRouter == LoginOauth \/ Login \/ Refresh \/ Logout
UsersRouter == CreateUser \/ GetMe \/ UpdateUser
VideosRouter ==
    \/ CreateVideo \/ GetVideo \/ UpdateVideo \/ DeleteVideo
    \/ SearchVideos({None}, FirstPages, FirstSizes)
ProcessingRouter == GetProcessingStatus \/ PublishVideo
SocialRouter ==
    \/ CreateComment \/ GetComment \/ DeleteComment \/ SetLike
    \/ PingView(SomePositions)
StatsRouter == GetVideoStats \/ GetUserStats

\* The whole application: every router app.include_router() mounts.
Next ==
    \/ AuthRouter
    \/ UsersRouter
    \/ VideosRouter
    \/ InitUpload
    \/ ProcessingRouter
    \/ SocialRouter
    \/ SendNotification
    \/ StatsRouter
    \/ SearchVideosGlobal(FirstPages, FirstSizes)
    \/ Healthcheck

Spec == Init /\ [][Next]_vars

\* POST /social/views alone, over every position up to MaxPosition.
NextViews == PingView(Positions)

SpecViews == Init /\ [][NextViews]_vars

\* The two listings alone, over the wider pages and sizes.
NextSearch == SearchVideos(Owners, Pages, Sizes) \/ SearchVideosGlobal(Pages, Sizes)

SpecSearch == Init /\ [][NextSearch]_vars

\* ----------------------------------------------------------- observations

Exchanges == 1..Len(log)
Req(i) == log[i].req
Resp(i) == log[i].resp

IsError(resp) == resp.code >= 400

\* The video whose status exchange i reports, and the status reported: VideoOut's
\* id and status (create_video, get_video, update_video) and ProcessStatus's
\* video_id and status (get_processing_status).
ReportsStatus(i) ==
    /\ Req(i).op \in {"create_video", "get_video", "update_video",
                      "get_processing_status"}
    /\ ~IsError(Resp(i))

StatusVideo(i) ==
    IF Req(i).op = "get_processing_status" THEN Resp(i).video_id ELSE Resp(i).video.id

StatusSeen(i) ==
    IF Req(i).op = "get_processing_status" THEN Resp(i).status ELSE Resp(i).video.status

IsSearch(i) == Req(i).op \in {"search_videos", "search_videos_global"}

\* A response without what a handler draws afresh on every call: the uuids
\* uuid4() returned and the datetime.now() timestamps.
StripVideo(v, owner) ==
    [v EXCEPT !.id = 0, !.created_at = 0, !.owner_id = IF owner THEN 0 ELSE @]

Norm(r, resp) ==
    IF IsError(resp) THEN resp
    ELSE CASE r.op \in {"create_user"} -> [resp EXCEPT !.id = 0, !.created_at = 0]
           [] r.op = "update_user" -> [resp EXCEPT !.created_at = 0]
           [] r.op = "create_video" ->
                [resp EXCEPT !.video = [@ EXCEPT !.id = 0, !.created_at = 0]]
           [] r.op \in {"get_video", "update_video"} ->
                [resp EXCEPT !.video = [@ EXCEPT !.owner_id = 0, !.created_at = 0]]
           [] r.op = "search_videos" ->
                [resp EXCEPT !.items =
                    [k \in DOMAIN @ |-> StripVideo(@[k], r.owner_id = None)]]
           [] r.op = "search_videos_global" ->
                [resp EXCEPT !.items = [k \in DOMAIN @ |-> StripVideo(@[k], TRUE)]]
           [] r.op = "init_upload" -> [resp EXCEPT !.video_id = 0]
           [] r.op = "publish_video" -> [resp EXCEPT !.published_at = 0]
           [] r.op = "create_comment" -> [resp EXCEPT !.id = 0, !.created_at = 0]
           [] r.op = "get_comment" ->
                [resp EXCEPT !.video_id = 0, !.author_id = 0, !.created_at = 0]
           [] r.op = "ping_view" ->
                [resp EXCEPT !.view_id = IF @ = None THEN None ELSE Some(0)]
           [] r.op = "send_notification" -> [resp EXCEPT !.id = 0]
           [] r.op = "healthcheck" -> [resp EXCEPT !.time = 0]
           [] OTHER -> resp

\* ------------------------------------------------------------------ claims

\* The status the gateway last reported for video v before exchange j, if any.
LastReport(v, j) ==
    {i \in 1..(j - 1) :
        /\ ReportsStatus(i) /\ StatusVideo(i) = v
        /\ \A k \in (i + 1)..(j - 1) : ~(ReportsStatus(k) /\ StatusVideo(k) = v)}

\* C1: a publish request for a video whose status is not `ready` (the status the
\* gateway last reported for it is another one) is answered with a NotReady
\* error, and with no visibility or published timestamp.
C1_PublishNotReady ==
    \A j \in Exchanges :
        (/\ Req(j).op = "publish_video"
         /\ \E i \in LastReport(Req(j).body.video_id, j) : StatusSeen(i) # "ready")
        => (IsError(Resp(j)) /\ Resp(j).error = "NotReady")

\* C2: every video a listing or a search returns was made visible by an earlier
\* successful publish of that video.
C2_OnlyPublishedDiscoverable ==
    \A j \in Exchanges :
        (IsSearch(j) /\ ~IsError(Resp(j))) =>
            \A k \in DOMAIN Resp(j).items :
                \E i \in 1..(j - 1) :
                    /\ Req(i).op = "publish_video"
                    /\ ~IsError(Resp(i))
                    /\ Resp(i).video_id = Resp(j).items[k].id

\* The legal state graph uploaded -> queued -> processing -> {ready, failed}.
LegalStatus == {"uploaded", "queued", "processing", "ready", "failed"}
LegalEdge ==
    {<<"uploaded", "queued">>, <<"queued", "processing">>,
     <<"processing", "ready">>, <<"processing", "failed">>}

\* C3: the statuses reported for one video are members of
\* {uploaded, queued, processing, ready, failed}, and two successive reports of
\* one video either agree or are an edge of the legal state graph.

C3_LegalStatusGraph ==
    /\ \A i \in Exchanges : ReportsStatus(i) => StatusSeen(i) \in LegalStatus
    /\ \A j \in Exchanges :
        ReportsStatus(j) =>
            \A i \in LastReport(StatusVideo(j), j) :
                \/ StatusSeen(i) = StatusSeen(j)
                \/ <<StatusSeen(i), StatusSeen(j)>> \in LegalEdge

\* C4: every progress reported is within 0..100, and of two reads of one video's
\* processing status the later one reports no less progress than the earlier
\* (the gateway starts no new attempt, so progress never returns to 0 either).
C4_ProgressMonotone ==
    /\ \A i \in Exchanges :
        Req(i).op = "get_processing_status" => Resp(i).progress \in 0..100
    /\ \A i, j \in Exchanges :
        (/\ i < j
         /\ Req(i).op = "get_processing_status"
         /\ Req(j).op = "get_processing_status"
         /\ Req(i).video_id = Req(j).video_id)
        => Resp(j).progress >= Resp(i).progress

\* C4's case: one video's processing status read twice.
C4_Witness ==
    \E i, j \in Exchanges :
        /\ i < j
        /\ Req(i).op = "get_processing_status"
        /\ Req(j) = Req(i)

\* C5: a second publish of one video with the same target visibility leaves the
\* visibility and the published timestamp what the first publish made them.
C5_PublishTwiceNoOp ==
    \A i, j \in Exchanges :
        (/\ i < j
         /\ Req(i).op = "publish_video"
         /\ Req(j) = Req(i)
         /\ ~IsError(Resp(i)))
        => (/\ ~IsError(Resp(j))
            /\ Resp(j).visibility = Resp(i).visibility
            /\ Resp(j).published_at = Resp(i).published_at)

\* Processing of a video has started once its processing status is reported as
\* running (or later), and has completed once it is reported as ready or failed.
ProcessingStarted(v, j) ==
    \E k \in 1..j :
        /\ Req(k).op = "get_processing_status"
        /\ Resp(k).video_id = v
        /\ Resp(k).status \in {"running", "processing", "ready", "failed"}

ProcessingCompleted(v, j) ==
    \E k \in 1..j :
        /\ Req(k).op = "get_processing_status"
        /\ Resp(k).video_id = v
        /\ Resp(k).status \in {"ready", "failed"}

\* C6: the status reported for a video id init_upload returned is `queued` until
\* processing starts and is not `ready` before processing has completed.
C6_UploadQueued ==
    \A i, j \in Exchanges :
        (/\ i < j
         /\ Req(i).op = "init_upload"
         /\ ReportsStatus(j)
         /\ StatusVideo(j) = Resp(i).video_id)
        => (/\ ~ProcessingStarted(Resp(i).video_id, j) => StatusSeen(j) = "queued"
            /\ ~ProcessingCompleted(Resp(i).video_id, j) => StatusSeen(j) # "ready")

\* C7: no request changes what a later request is answered: up to fresh uuids
\* and timestamps, the answer a request was given is the answer the gateway gives
\* the same request after everything it has handled since, and the same request
\* sent twice is answered the same.
C7_Stateless ==
    /\ \A i \in Exchanges : Norm(Req(i), Resp(i)) = Norm(Req(i), Respond(Req(i)))
    /\ \A i, j \in Exchanges :
        (Req(i).op = Req(j).op /\ Req(i) = Req(j))
        => Norm(Req(i), Resp(i)) = Norm(Req(j), Resp(j))

\* C7's case: a video was read and then deleted or published, so the earlier
\* answer is compared with the one given after the delete or publish.
C7_Witness ==
    \E i, j \in Exchanges :
        /\ i < j
        /\ Req(i).op \in {"get_video", "get_processing_status"}
        /\ Req(j).op \in {"delete_video", "publish_video"}
        /\ (IF Req(j).op = "delete_video" THEN Req(j).video_id
            ELSE Req(j).body.video_id) = Req(i).video_id

\* C8: refresh rejects an empty refresh_token with 400, and every other request
\* that passes its schema is answered with the handler's success response.
C8_NoFailurePath ==
    \A i \in Exchanges :
        IF Req(i).op = "refresh" /\ Req(i).body.refresh_token = ""
        THEN Resp(i).code = 400
        ELSE ~IsError(Resp(i))

\* C9: a view is counted iff position_sec > 10, a view_id is present iff the view
\* is counted, and the acknowledgement names the request's video.
C9_ViewCounted ==
    \A i \in Exchanges :
        Req(i).op = "ping_view" =>
            /\ ~IsError(Resp(i))
            /\ Resp(i).counted = (Req(i).body.position_sec > 10)
            /\ (Resp(i).view_id # None) = Resp(i).counted
            /\ Resp(i).video_id = Req(i).body.video_id

\* C9's case: a ping at position 10 (not counted) and one at 11 (counted).
C9_Witness ==
    \E i, j \in Exchanges :
        /\ Req(i).op = "ping_view" /\ Req(i).body.position_sec = 10
        /\ Req(j).op = "ping_view" /\ Req(j).body.position_sec = 11
        /\ ~Resp(i).counted /\ Resp(j).counted

\* The index i in an item's title, f"Video {i}" or f"Found {i}".
ItemIndex(item) == item.title[2]

\* C10: for page >= 1 and size >= 1 a listing has exactly `size` items, the
\* indices (page-1)*size .. page*size-1 in order; search_videos_global's meta
\* echoes page and size, satisfies PageMeta's bounds, and the items stay within
\* meta.total: (page-1)*size + len(items) <= total.
C10_Pagination ==
    \A i \in Exchanges :
        (IsSearch(i) /\ Req(i).page >= 1 /\ Req(i).size >= 1) =>
            /\ ~IsError(Resp(i))
            /\ Len(Resp(i).items) = Req(i).size
            /\ (Req(i).op = "search_videos" \/ Req(i).q = None) =>
                \A k \in 1..Len(Resp(i).items) :
                    ItemIndex(Resp(i).items[k]) = (Req(i).page - 1) * Req(i).size + k - 1
            /\ Req(i).op = "search_videos_global" =>
                /\ Resp(i).meta.page = Req(i).page
                /\ Resp(i).meta.size = Req(i).size
                /\ Resp(i).meta.page >= 1
                /\ Resp(i).meta.size \in 1..200
                /\ Resp(i).meta.total >= 0
                /\ (Req(i).page - 1) * Req(i).size + Len(Resp(i).items)
                       <= Resp(i).meta.total

====
